---- MODULE Spec2Model ----
(***************************************************************************)
(* A model of @miroculus/config (src/index.js): the per-key parse          *)
(* function, the load entry point (source merge, schema loop, deferred     *)
(* validators) and the Proxy returned to the caller.                       *)
(*                                                                         *)
(* JavaScript strings are sequences of one-character strings, so that      *)
(* Number(), String(), split, trim, toLowerCase and the regular            *)
(* expressions are computed character by character.                        *)
(***************************************************************************)
EXTENDS Integers, Sequences, FiniteSets, TLC

(***************************************************************************)
(* JavaScript values.  Every value is a record of the same shape:          *)
(*   t : the kind ("undefined", "null", "string", "number", "NaN",         *)
(*       "boolean", "array", "function")                                   *)
(*   s : the characters of a string; the fraction digits of a number that  *)
(*       is not an integer (trailing zeros removed)                        *)
(*   n : an integer number; for a non-integer the value scaled by          *)
(*       10^Len(s)                                                         *)
(*   b : a boolean                                                         *)
(*   a : the elements (strings) of an array                                *)
(*   r : the identity of an array a caller supplies (arrays compare by     *)
(*       reference), 1 or more; 0 for an array the load creates and for a  *)
(*       value that is not an object                                       *)
(* -0 is not told apart from 0: ===, includes and String() do not either.  *)
(***************************************************************************)
V(t, s, n, b, a, r) == [t |-> t, s |-> s, n |-> n, b |-> b, a |-> a, r |-> r]

Undef == V("undefined", <<>>, 0, FALSE, <<>>, 0)

Null == V("null", <<>>, 0, FALSE, <<>>, 0)

NaN == V("NaN", <<>>, 0, FALSE, <<>>, 0)

Str(s) == V("string", s, 0, FALSE, <<>>, 0)

Num(n) == V("number", <<>>, n, FALSE, <<>>, 0)

Frac(n, s) == V("number", s, n, FALSE, <<>>, 0)

Bool(b) == V("boolean", <<>>, 0, b, <<>>, 0)

Arr(a, r) == V("array", <<>>, 0, FALSE, a, r)

Fn(name) == V("function", name, 0, FALSE, <<>>, 0)

\* typeof val === 'string'
IsString(v) == v.t = "string"

\* ToBoolean: undefined, null, false, 0, NaN and '' are falsy
Truthy(v) ==
  CASE v.t = "undefined" -> FALSE
    [] v.t = "null" -> FALSE
    [] v.t = "NaN" -> FALSE
    [] v.t = "boolean" -> v.b
    [] v.t = "number" -> v.n # 0
    [] v.t = "string" -> v.s # <<>>
    [] OTHER -> TRUE

\* Array.prototype.includes compares with SameValueZero: primitives by
\* value (NaN equals NaN), arrays by reference.
\* An array made by the load itself (r = 0) is a new object, the same as no
\* array a caller holds.
SameValueZero(x, y) == x = y /\ (x.t = "array" => x.r # 0)

(***************************************************************************)
(* Characters and strings                                                  *)
(***************************************************************************)
Digits == <<"0", "1", "2", "3", "4", "5", "6", "7", "8", "9">>

IsDigit(c) == \E k \in 1..10 : Digits[k] = c

DigitVal(c) == (CHOOSE k \in 1..10 : Digits[k] = c) - 1

IsSpace(c) == c = " "

UpperCase == <<"A", "B", "C", "D", "E", "F", "G", "H", "I", "J", "K", "L", "M",
               "N", "O", "P", "Q", "R", "S", "T", "U", "V", "W", "X", "Y", "Z">>

LowerCase == <<"a", "b", "c", "d", "e", "f", "g", "h", "i", "j", "k", "l", "m",
               "n", "o", "p", "q", "r", "s", "t", "u", "v", "w", "x", "y", "z">>

IsLower(c) == \E k \in 1..26 : LowerCase[k] = c

LowerChar(c) ==
  IF \E k \in 1..26 : UpperCase[k] = c
  THEN LowerCase[CHOOSE k \in 1..26 : UpperCase[k] = c]
  ELSE c

\* String.prototype.toLowerCase
toLowerCase(s) == [k \in 1..Len(s) |-> LowerChar(s[k])]

RECURSIVE TrimLeft(_)
TrimLeft(s) ==
  IF s # <<>> /\ IsSpace(Head(s)) THEN TrimLeft(Tail(s)) ELSE s

RECURSIVE TrimRight(_)
TrimRight(s) ==
  IF s # <<>> /\ IsSpace(s[Len(s)])
  THEN TrimRight(SubSeq(s, 1, Len(s) - 1))
  ELSE s

\* String.prototype.trim
trim(s) == TrimRight(TrimLeft(s))

AllDigits(s) == \A k \in 1..Len(s) : IsDigit(s[k])

\* The value of a sequence of decimal digits
RECURSIVE DigitsVal(_)
DigitsVal(s) ==
  IF s = <<>> THEN 0
  ELSE 10 * DigitsVal(SubSeq(s, 1, Len(s) - 1)) + DigitVal(s[Len(s)])

\* The decimal digits of a non-negative integer
RECURSIVE NatToDigits(_)
NatToDigits(n) ==
  IF n < 10 THEN <<Digits[n + 1]>>
  ELSE NatToDigits(n \div 10) \o <<Digits[(n % 10) + 1]>>

RECURSIVE StripZeros(_)
StripZeros(s) ==
  IF s # <<>> /\ s[Len(s)] = "0"
  THEN StripZeros(SubSeq(s, 1, Len(s) - 1))
  ELSE s

RECURSIVE Pow10(_)
Pow10(k) == IF k = 0 THEN 1 ELSE 10 * Pow10(k - 1)

\* The number with integer digits ip and fraction digits fp
MkNumber(neg, ip, fp) ==
  LET f == StripZeros(fp)
      m == DigitsVal(ip \o f)
  IN  Frac(IF neg THEN -m ELSE m, IF m = 0 THEN <<>> ELSE f)

IndexOf(s, c) ==
  IF \E k \in 1..Len(s) : s[k] = c
  THEN CHOOSE k \in 1..Len(s) : s[k] = c /\ \A j \in 1..(k - 1) : s[j] # c
  ELSE 0

\* An unsigned decimal literal: digits, digits. , digits.digits , .digits
DecimalLiteral(neg, u) ==
  LET dot == IndexOf(u, ".")
      ip == IF dot = 0 THEN u ELSE SubSeq(u, 1, dot - 1)
      fp == IF dot = 0 THEN <<>> ELSE SubSeq(u, dot + 1, Len(u))
  IN  IF AllDigits(ip) /\ AllDigits(fp) /\ ip \o fp # <<>>
      THEN MkNumber(neg, ip, fp)
      ELSE NaN

\* Number(val) of a string: white space is trimmed, the empty string is 0,
\* a signed decimal literal is its value and anything else is NaN.  (Exact
\* for strings without exponents, "+", "Infinity" and 0x/0o/0b prefixes;
\* the strings of this model have none.)
Number(s) ==
  LET u == trim(s)
  IN  IF u = <<>> THEN Num(0)
      ELSE IF Head(u) = "-" THEN DecimalLiteral(TRUE, Tail(u))
      ELSE DecimalLiteral(FALSE, u)

\* String(n) of a number (no exponent form: the numbers here are small)
NumberToString(v) ==
  IF v.t = "NaN" THEN <<"N", "a", "N">>
  ELSE LET m == IF v.n < 0 THEN -v.n ELSE v.n
           k == Len(v.s)
           sign == IF v.n < 0 THEN <<"-">> ELSE <<>>
       IN  IF k = 0 THEN sign \o NatToDigits(m)
           ELSE sign \o NatToDigits(m \div Pow10(k)) \o <<".">> \o v.s

RECURSIVE Join(_)
Join(a) ==
  IF a = <<>> THEN <<>>
  ELSE IF Len(a) = 1 THEN a[1]
  ELSE a[1] \o <<",">> \o Join(Tail(a))

\* String(val), as RegExp.prototype.test applies it to its argument
StringOf(v) ==
  CASE v.t = "undefined" -> <<"u", "n", "d", "e", "f", "i", "n", "e", "d">>
    [] v.t = "null" -> <<"n", "u", "l", "l">>
    [] v.t = "string" -> v.s
    [] v.t = "boolean" ->
         IF v.b THEN <<"t", "r", "u", "e">> ELSE <<"f", "a", "l", "s", "e">>
    [] v.t = "array" -> Join(v.a)
    [] v.t = "function" -> <<"f", "u", "n", "c", "t", "i", "o", "n">>
    [] OTHER -> NumberToString(v)

\* const isNumber = /^-?([1-9][0-9]*|0)$/ ; isNumber.test(x) is on String(x)
isNumberMatch(s) ==
  LET u == IF s # <<>> /\ Head(s) = "-" THEN Tail(s) ELSE s
  IN  \/ u = <<"0">>
      \/ u # <<>> /\ AllDigits(u) /\ Head(u) # "0"

isNumber(v) == isNumberMatch(StringOf(v))

\* const booleans = ['true', 'false']
booleans == << <<"t", "r", "u", "e">>, <<"f", "a", "l", "s", "e">> >>

Includes(seq, x) == \E k \in 1..Len(seq) : SameValueZero(seq[k], x)

\* val.split(',')
RECURSIVE Split(_)
Split(s) ==
  LET c == IndexOf(s, ",")
  IN  IF c = 0 THEN <<s>>
      ELSE <<SubSeq(s, 1, c - 1)>> \o Split(SubSeq(s, c + 1, Len(s)))

\* val.split(',').map(str => str.trim())
SplitTrim(s) == LET p == Split(s) IN [k \in 1..Len(p) |-> trim(p[k])]

\* JSON.parse(val): white space around one JSON value.  The strings of this
\* model can spell the literals and numbers without exponent; every other
\* text is a SyntaxError.
JSONNumber(u) ==
  LET neg == u # <<>> /\ Head(u) = "-"
      w == IF neg THEN Tail(u) ELSE u
      dot == IndexOf(w, ".")
      ip == IF dot = 0 THEN w ELSE SubSeq(w, 1, dot - 1)
      fp == IF dot = 0 THEN <<>> ELSE SubSeq(w, dot + 1, Len(w))
  IN  IF /\ ip # <<>> /\ AllDigits(ip)
         /\ (Len(ip) = 1 \/ Head(ip) # "0")
         /\ (dot = 0 \/ (fp # <<>> /\ AllDigits(fp)))
      THEN [ok |-> TRUE, val |-> MkNumber(neg, ip, fp)]
      ELSE [ok |-> FALSE, val |-> Undef]

JSONparse(s) ==
  LET u == trim(s)
  IN  CASE u = <<"n", "u", "l", "l">> -> [ok |-> TRUE, val |-> Null]
        [] u = <<"t", "r", "u", "e">> -> [ok |-> TRUE, val |-> Bool(TRUE)]
        [] u = <<"f", "a", "l", "s", "e">> -> [ok |-> TRUE, val |-> Bool(FALSE)]
        [] OTHER -> JSONNumber(u)

(***************************************************************************)
(* Schema entries.  An entry is a bare type name (short) or an attribute   *)
(* record:                                                                 *)
(*   default  : [fn, v]  a function returning v (fn) or the literal v;     *)
(*              the literal undefined is an absent default                 *)
(*   validate : [kind, id, v]  kind "none", "function" (the predicate      *)
(*              id), "regex" (the pattern id) or "other" (the value v)     *)
(*   enum     : [kind, a, v]  kind "none", "array" (the elements a) or     *)
(*              "other" (the value v)                                      *)
(***************************************************************************)
NoDefault == [fn |-> FALSE, v |-> Undef]

Literal(v) == [fn |-> FALSE, v |-> v]

Function(v) == [fn |-> TRUE, v |-> v]

NoValidate == [kind |-> "none", id |-> "", v |-> Undef]

ValidateFn(id) == [kind |-> "function", id |-> id, v |-> Undef]

ValidateRegExp(id) == [kind |-> "regex", id |-> id, v |-> Undef]

ValidateOther(v) == [kind |-> "other", id |-> "", v |-> v]

NoEnum == [kind |-> "none", a |-> <<>>, v |-> Undef]

EnumArray(a) == [kind |-> "array", a |-> a, v |-> Undef]

EnumOther(v) == [kind |-> "other", a |-> <<>>, v |-> v]

Attrs(type, required, default, validate, enum) ==
  [short |-> FALSE, type |-> type, required |-> required, default |-> default,
   validate |-> validate, enum |-> enum]

Short(type) ==
  [short |-> TRUE, type |-> type, required |-> FALSE, default |-> NoDefault,
   validate |-> NoValidate, enum |-> NoEnum]

\* if (typeof schema === 'string') schema = { type: schema }
Normalize(e) ==
  IF e.short
  THEN Attrs(e.type, FALSE, NoDefault, NoValidate, NoEnum)
  ELSE e

\* if (schema.validate)
HasValidate(e) ==
  CASE e.validate.kind = "none" -> FALSE
    [] e.validate.kind = "other" -> Truthy(e.validate.v)
    [] OTHER -> TRUE

\* if (schema.enum)
HasEnum(e) ==
  CASE e.enum.kind = "none" -> FALSE
    [] e.enum.kind = "other" -> Truthy(e.enum.v)
    [] OTHER -> TRUE

(***************************************************************************)
(* Maps (plain objects): functions from a set of property names            *)
(***************************************************************************)
EmptyMap == [k \in {} |-> Undef]

\* hasOwnProperty(obj, key)
hasOwnProperty(obj, key) == key \in DOMAIN obj

\* A merge in which an empty string of the source does not overwrite
AssignNonEmpty(target, source) ==
  [k \in DOMAIN target \cup {k \in DOMAIN source : source[k] # Str(<<>>)} |->
     IF k \in DOMAIN source /\ source[k] # Str(<<>>)
     THEN source[k] ELSE target[k]]

\* Object.assign(target, source), { ...source }
Assign(target, source) ==
  [k \in DOMAIN target \cup DOMAIN source |->
     IF k \in DOMAIN source THEN source[k] ELSE target[k]]

\* An assignment that skips undefined values
PutDefined(obj, key, value) ==
  IF value = Undef THEN obj
  ELSE [k \in DOMAIN obj \cup {key} |-> IF k = key THEN value ELSE obj[k]]

\* obj[key] = value
Put(obj, key, value) ==
  [k \in DOMAIN obj \cup {key} |-> IF k = key THEN value ELSE obj[k]]

\* Object.prototype, where a plain object's missing properties are looked up
ObjectPrototype(prop) ==
  IF prop \in {"valueOf", "toString", "hasOwnProperty", "constructor"}
  THEN Fn(<<prop>>)
  ELSE Undef

\* obj[key]
Lookup(obj, key) ==
  IF hasOwnProperty(obj, key) THEN obj[key] ELSE ObjectPrototype(key)

(***************************************************************************)
(* parse(key, val, schema): the value, or the error thrown.  called tells  *)
(* whether schema.default was invoked.                                     *)
(***************************************************************************)
Return(v) == [ok |-> TRUE, val |-> v, err |-> "none", called |-> FALSE]

Called(v) == [ok |-> TRUE, val |-> v, err |-> "none", called |-> TRUE]

Throw(e) == [ok |-> FALSE, val |-> Undef, err |-> e, called |-> FALSE]

\* const invalidValue = (key, val) => new Error(`Invalid config value ...`)
invalidValue == Throw("InvalidValue")

parseNumber(val) ==
  LET n == Number(val.s)
  IN  IF ~isNumber(n) THEN invalidValue ELSE Return(n)

parseBoolean(val) ==
  LET b == toLowerCase(val.s)
  IN  IF ~(\E k \in 1..Len(booleans) : booleans[k] = b)
      THEN invalidValue
      ELSE Return(Bool(b = <<"t", "r", "u", "e">>))

parseJSON(val) ==
  LET j == JSONparse(val.s)
  IN  IF j.ok THEN Return(j.val) ELSE Throw("SyntaxError")

parseDefault(schema) ==
  IF schema.default.fn THEN Called(schema.default.v)
  ELSE IF schema.type = "array" THEN Return(Arr(<<>>, 0))
  ELSE Return(schema.default.v)

parseType(val, type) ==
  CASE type = "string" -> Return(val)
    [] type = "array" -> Return(Arr(SplitTrim(val.s), 0))
    [] type = "number" -> parseNumber(val)
    [] type = "boolean" -> parseBoolean(val)
    [] type = "json" -> parseJSON(val)
    [] OTHER -> Throw("InvalidType")

\* parse with the required branch falling through to the type coercion
parseRequiredCoerced(key, val, schema) ==
  IF schema.required = TRUE
  THEN IF ~IsString(val) THEN invalidValue
       ELSE IF val = Str(<<>>) THEN invalidValue
       ELSE parseType(val, schema.type)
  ELSE IF val = Undef \/ val = Str(<<>>) THEN parseDefault(schema)
       ELSE IF ~IsString(val) THEN invalidValue
       ELSE parseType(val, schema.type)

\* parse with the type name checked before anything else
parseTypeFirst(key, val, schema) ==
  IF schema.type \notin {"string", "array", "number", "boolean", "json"}
  THEN Throw("InvalidType")
  ELSE IF schema.required = TRUE
  THEN IF ~IsString(val) THEN invalidValue
       ELSE IF val = Str(<<>>) THEN invalidValue
       ELSE Return(val)
  ELSE IF val = Undef \/ val = Str(<<>>) THEN parseDefault(schema)
       ELSE IF ~IsString(val) THEN invalidValue
       ELSE parseType(val, schema.type)

parse(key, val, schema) ==
  IF schema.required = TRUE
  THEN IF ~IsString(val) THEN invalidValue
       ELSE IF val = Str(<<>>) THEN invalidValue
       ELSE Return(val)
  ELSE IF val = Undef \/ val = Str(<<>>) THEN parseDefault(schema)
       ELSE IF ~IsString(val) THEN invalidValue
       ELSE parseType(val, schema.type)

(***************************************************************************)
(* The callbacks and patterns a schema carries                             *)
(***************************************************************************)
\* schema.validate(val, key, config), for the predicates of the inputs:
\*   "true"  () => true
\*   "false" () => false
\*   "peer"  (val, key, config) => every other key of config is not undefined
validateCall(id, val, key, cfg) ==
  CASE id = "true" -> TRUE
    [] id = "false" -> FALSE
    [] OTHER -> \A k \in DOMAIN cfg \ {key} : cfg[k] # Undef

\* schema.validate.test(val), for the pattern /[a-z]+/
validateTest(id, val) ==
  LET str == StringOf(val) IN \E k \in 1..Len(str) : IsLower(str[k])

(***************************************************************************)
(* The state of one load call and of the view it returns.  The schema is   *)
(* held as Object.entries(schema) yields it: for keys that are not         *)
(* integer-like, as the keys here, that is the order of declaration.       *)
(* Default functions and validators are pure: they return a value and      *)
(* change nothing; calls records each invocation with what it was passed.  *)
(***************************************************************************)
VARIABLES
  schema,            \* Object.entries(schema): a sequence of [key, attrs]
  envObject,         \* opts.envObject
  fromEnvFile,       \* opts.fromEnvFile: "false", "true" or a path
  fromProcessEnv,    \* opts.fromProcessEnv
  fs,                \* the files that exist: path -> dotenv.parse of the file
  processEnv,        \* process.env
  given,             \* the merged raw values
  config,            \* the resolved config, the Proxy's target
  validationsToRun,  \* the deferred validations: [key, val, validate]
  pc,                \* "start", "running", "returned" or "thrown"
  i,                 \* the schema entry the forEach is at
  j,                 \* the deferred validation the forEach is at
  error,             \* the error load threw, or "none"
  calls,             \* the callbacks invoked so far: [fn, key, val, cfg]
  result,            \* the outcome of the last get or set on the view
  earlier            \* the view an earlier load call returned, if any: its
                     \* target and the outcome of the last get or set on it

vars == <<schema, envObject, fromEnvFile, fromProcessEnv, fs, processEnv, given,
          config, validationsToRun, pc, i, j, error, calls, result, earlier>>

inputs == <<schema, envObject, fromEnvFile, fromProcessEnv, fs, processEnv>>

NoResult == [op |-> "none", prop |-> "", val |-> Undef, err |-> "none"]

\* No load call has returned a view yet
NoView == [live |-> FALSE, target |-> EmptyMap, result |-> NoResult]

\* The state when load is called
BeforeLoad ==
  /\ given = EmptyMap
  /\ config = EmptyMap
  /\ validationsToRun = <<>>
  /\ pc = "start"
  /\ i = 1
  /\ j = 1
  /\ error = "none"
  /\ calls = <<>>
  /\ result = NoResult

\* path.resolve(process.cwd(), '.env')
DefaultEnvPath == ".env"

\* const given = { ...envObject }, then the file layer, then process.env
mergeFile(g) ==
  IF fromEnvFile # "false"
  THEN LET dotenvPath ==
             IF fromEnvFile = "true" THEN DefaultEnvPath ELSE fromEnvFile
       IN  IF dotenvPath \in DOMAIN fs THEN Assign(g, fs[dotenvPath]) ELSE g
  ELSE g

mergeProcessEnv(g) == IF fromProcessEnv THEN Assign(g, processEnv) ELSE g

\* The merge with the file layer applied last
mergeSourcesFileLast == mergeFile(mergeProcessEnv(Assign(EmptyMap, envObject)))

mergeSources == mergeProcessEnv(mergeFile(Assign(EmptyMap, envObject)))

MergeSources ==
  /\ pc = "start"
  /\ given' = mergeSources
  /\ pc' = "running"
  /\ UNCHANGED <<inputs, earlier, config, validationsToRun, i, j, error,
                 calls, result>>

Call(fn, key, val) == [fn |-> fn, key |-> key, val |-> val, cfg |-> config]

\* The enum check that looks at the shape of enum only
enumCheckShapeOnly(e, val) ==
  IF HasEnum(e) /\ e.enum.kind # "array" THEN "InvalidSchema" ELSE "none"

\* if (schema.enum) { ... }: the error it throws, or "none"
enumCheck(e, val) ==
  IF HasEnum(e)
  THEN IF e.enum.kind # "array" THEN "InvalidSchema"
       ELSE IF ~Includes(e.enum.a, val) THEN "EnumViolation"
       ELSE "none"
  ELSE "none"

\* The loop body that records the error of an entry and goes on
ParseKeyContinue ==
  /\ pc = "running"
  /\ i <= Len(schema)
  /\ LET key == schema[i].key
         e == Normalize(schema[i].attrs)
         p == parse(key, Lookup(given, key), e)
         thrown == IF p.ok THEN enumCheck(e, p.val) ELSE p.err
     IN  /\ calls' = IF p.called
                     THEN Append(calls, Call("default", key, Undef))
                     ELSE calls
         /\ validationsToRun' =
              IF p.ok /\ HasValidate(e)
              THEN Append(validationsToRun,
                          [key |-> key, val |-> p.val, validate |-> e.validate])
              ELSE validationsToRun
         /\ IF thrown # "none"
            THEN /\ error' = thrown
                 /\ i' = i + 1
                 /\ UNCHANGED <<config, pc>>
            ELSE /\ config' = Put(config, key, p.val)
                 /\ i' = i + 1
                 /\ UNCHANGED <<pc, error>>
  /\ UNCHANGED <<inputs, earlier, given, j, result>>

\* The body of Object.entries(schema).forEach for the entry at i
ParseKey ==
  /\ pc = "running"
  /\ i <= Len(schema)
  /\ LET key == schema[i].key
         e == Normalize(schema[i].attrs)
         p == parse(key, Lookup(given, key), e)
         thrown == IF p.ok THEN enumCheck(e, p.val) ELSE p.err
     IN  /\ calls' = IF p.called
                     THEN Append(calls, Call("default", key, Undef))
                     ELSE calls
         /\ validationsToRun' =
              IF p.ok /\ HasValidate(e)
              THEN Append(validationsToRun,
                          [key |-> key, val |-> p.val, validate |-> e.validate])
              ELSE validationsToRun
         /\ IF thrown # "none"
            THEN /\ pc' = "thrown"
                 /\ error' = thrown
                 /\ UNCHANGED <<config, i>>
            ELSE /\ config' = Put(config, key, p.val)
                 /\ i' = i + 1
                 /\ UNCHANGED <<pc, error>>
  /\ UNCHANGED <<inputs, earlier, given, j, result>>

\* The deferred validation that drops the result of the validator
validationIgnoresResult(v) ==
  IF v.validate.kind \in {"function", "regex"} THEN "none" ELSE "InvalidSchema"

\* The error the deferred validation v throws, or "none"
validation(v) ==
  IF v.validate.kind = "function"
  THEN IF ~validateCall(v.validate.id, v.val, v.key, config)
       THEN "ValidationFailed" ELSE "none"
  ELSE IF v.validate.kind = "regex"
  THEN IF ~validateTest(v.validate.id, v.val)
       THEN "ValidationFailed" ELSE "none"
  ELSE "InvalidSchema"

\* validationsToRun.forEach(validate => validate()), for the one at j
RunValidation ==
  /\ pc = "running"
  /\ i > Len(schema)
  /\ j <= Len(validationsToRun)
  /\ LET v == validationsToRun[j]
         thrown == validation(v)
     IN  /\ calls' =
              CASE v.validate.kind = "function" ->
                     Append(calls, Call("validate", v.key, v.val))
                [] v.validate.kind = "regex" ->
                     Append(calls, Call("test", v.key, v.val))
                [] OTHER -> calls
         /\ IF thrown # "none"
            THEN pc' = "thrown" /\ error' = thrown /\ j' = j
            ELSE j' = j + 1 /\ UNCHANGED <<pc, error>>
  /\ UNCHANGED <<inputs, earlier, given, config, validationsToRun, i, result>>

\* return new Proxy(config, { get, set })
ReturnProxy ==
  /\ pc = "running"
  /\ i > Len(schema)
  /\ j > Len(validationsToRun)
  /\ pc' = "returned"
  /\ UNCHANGED <<inputs, earlier, given, config, validationsToRun, i, j,
                 error, calls, result>>

\* const reservedSymbols = [...]; the symbols are written @@name
reservedSymbols ==
  <<"toJSON", "valueOf", "inspect", "@@nodejs.util.inspect.custom",
    "@@isConcatSpreadable", "@@toStringTag", "@@iterator">>

IsReserved(prop) == \E k \in 1..Len(reservedSymbols) : reservedSymbols[k] = prop

\* The symbols among the property keys (a symbol is written @@name)
Symbols ==
  {"@@nodejs.util.inspect.custom", "@@isConcatSpreadable", "@@toStringTag",
   "@@iterator", "@@toPrimitive"}

\* throw new Error(`Invalid config key "${prop}"`): the template literal
\* converts prop to a string, which throws a TypeError for a symbol
invalidKey(prop) == IF prop \in Symbols THEN "TypeError" ELSE "UnknownKey"

\* get (target, prop)
getTrap(target, prop) ==
  IF ~IsReserved(prop) /\ ~hasOwnProperty(target, prop)
  THEN [op |-> "get", prop |-> prop, val |-> Undef, err |-> invalidKey(prop)]
  ELSE [op |-> "get", prop |-> prop, val |-> Lookup(target, prop), err |-> "none"]

\* set (target, prop, value): the target afterwards
setTarget(target, prop, value) ==
  IF ~hasOwnProperty(target, prop) THEN target ELSE Put(target, prop, value)

\* set (target, prop, value): the outcome of view[prop] = value.  The trap
\* returns the value assigned; an assignment in strict mode code throws a
\* TypeError when a set trap returns a falsy value.
setTrap(target, prop, value, strict) ==
  IF ~hasOwnProperty(target, prop)
  THEN [op |-> "set", prop |-> prop, val |-> value, err |-> invalidKey(prop)]
  ELSE IF strict /\ ~Truthy(value)
  THEN [op |-> "set", prop |-> prop, val |-> value, err |-> "TypeError"]
  ELSE [op |-> "set", prop |-> prop, val |-> value, err |-> "none"]

\* view[prop]
Get(prop) ==
  /\ pc = "returned"
  /\ result' = getTrap(config, prop)
  /\ UNCHANGED <<inputs, earlier, given, config, validationsToRun, pc, i, j,
                 error, calls>>

\* view[prop] = value, in strict mode code or not
Set(prop, value, strict) ==
  /\ pc = "returned"
  /\ config' = setTarget(config, prop, value)
  /\ result' = setTrap(config, prop, value, strict)
  /\ UNCHANGED <<inputs, earlier, given, validationsToRun, pc, i, j, error,
                 calls>>

\* load is called again after it returned a view: the call has its own
\* schema and options and makes its own config object (const config = {});
\* the view returned before keeps the object it was made with
LoadAgain(schema2, envObject2) ==
  /\ pc = "returned"
  /\ ~earlier.live
  /\ earlier' = [live |-> TRUE, target |-> config, result |-> result]
  /\ schema' = schema2
  /\ envObject' = envObject2
  /\ given' = EmptyMap
  /\ config' = EmptyMap
  /\ validationsToRun' = <<>>
  /\ pc' = "start"
  /\ i' = 1
  /\ j' = 1
  /\ error' = "none"
  /\ calls' = <<>>
  /\ result' = NoResult
  /\ UNCHANGED <<fromEnvFile, fromProcessEnv, fs, processEnv>>

\* earlierView[prop]
GetEarlier(prop) ==
  /\ earlier.live
  /\ earlier' = [earlier EXCEPT !.result = getTrap(earlier.target, prop)]
  /\ UNCHANGED <<inputs, given, config, validationsToRun, pc, i, j, error,
                 calls, result>>

\* A set trap whose target is the object of both views
SetShared(prop, value, strict) ==
  /\ earlier.live
  /\ earlier' = [earlier EXCEPT
                   !.target = setTarget(earlier.target, prop, value),
                   !.result = setTrap(earlier.target, prop, value, strict)]
  /\ config' = setTarget(config, prop, value)
  /\ UNCHANGED <<inputs, given, validationsToRun, pc, i, j, error, calls,
                 result>>

\* earlierView[prop] = value; the earlier view is in the hands of the caller,
\* who may write it before, after or (from a default function or a
\* predicate) during the later load
SetEarlier(prop, value, strict) ==
  /\ earlier.live
  /\ earlier' = [earlier EXCEPT
                   !.target = setTarget(earlier.target, prop, value),
                   !.result = setTrap(earlier.target, prop, value, strict)]
  /\ UNCHANGED <<inputs, given, config, validationsToRun, pc, i, j, error,
                 calls, result>>

(***************************************************************************)
(* The inputs of the model                                                 *)
(***************************************************************************)
\* The longest raw string built from Alphabet
MaxLen == 3

\* The most keys a schema declares
MaxKeys == 2

KeyNames == <<"A", "B", "C", "D">>

Alphabet == {"0", "1", "-", ".", " "}

Strings(n) == UNION {[1..k -> Alphabet] : k \in 0..n}

\* Raw strings that are words, lists and numbers beyond Alphabet
WordStrings ==
  { <<"t", "r", "u", "e">>, <<"T", "R", "U", "E">>, <<"F", "a", "l", "s", "e">>,
    <<"t", "r", "u", "e", "e">>, <<"n", "u", "l", "l">>,
    <<"a", ",", " ", "b", " ", ",", "c">>, <<"3", ".", "2">>,
    <<"0", "1", "2", "3">>, <<"1", "2", "3", "0", "0">>, <<"-", "1", "2", "3">> }

\* The values a view is written with
WriteValues ==
  {Undef, Null, Bool(FALSE), Num(0), Str(<<>>), Str(<<"u">>), Num(7)}

\* The properties a view is read and written at
Props ==
  {"A", "B", "X", "toString"} \cup Symbols
    \cup {reservedSymbols[k] : k \in 1..Len(reservedSymbols)}

Types == {"string", "number", "boolean", "json", "array", "date"}

Defaults ==
  {NoDefault, Literal(Str(<<"d">>)), Function(Str(<<"d">>)),
   Literal(Arr(<<"d">>, 1))}

\* One key, every type, required or not, every default; no validate, no enum
ParseEntries ==
  {Short(t) : t \in Types} \cup
  {Attrs(t, r, d, NoValidate, NoEnum) : t \in Types, r \in BOOLEAN, d \in Defaults}

ParseRaws ==
  {Str(w) : w \in Strings(MaxLen) \cup WordStrings} \cup {Num(5), Null}

Entry(key, attrs) == [key |-> key, attrs |-> attrs]

\* The maps from the keys ks to the values vs, a key may be missing
Maps(ks, vs) == UNION {[d -> vs] : d \in SUBSET ks}

InitParse ==
  /\ schema \in {<<Entry("A", e)>> : e \in ParseEntries}
  /\ envObject \in Maps({"A"}, ParseRaws)
  /\ fromEnvFile = "false"
  /\ fromProcessEnv = FALSE
  /\ fs = EmptyMap
  /\ processEnv = EmptyMap
  /\ BeforeLoad
  /\ earlier = NoView

NextParse == MergeSources \/ ParseKey \/ ReturnProxy

SpecParse == InitParse /\ [][NextParse]_vars

\* The entries of the schemas that are loaded key by key
LoadEntries ==
  { Short("string"),
    Attrs("number", FALSE, NoDefault, NoValidate,
          EnumArray(<<Num(2), Num(4), Num(6)>>)),
    Attrs("string", FALSE, Function(Str(<<"a">>)), ValidateFn("peer"),
          EnumArray(<<Str(<<"a">>), Str(<<"2">>)>>)),
    Attrs("string", FALSE, NoDefault, ValidateFn("false"), NoEnum),
    Attrs("string", TRUE, NoDefault, ValidateRegExp("[a-z]+"), NoEnum),
    Attrs("boolean", FALSE, Literal(Bool(TRUE)), ValidateFn("true"), NoEnum),
    Attrs("string", FALSE, NoDefault, ValidateOther(Num(5)), NoEnum),
    Attrs("string", FALSE, Function(Str(<<"c">>)), NoValidate,
          EnumOther(Str(<<"a", "b">>))),
    Attrs("string", FALSE, NoDefault, NoValidate,
          EnumArray(<<Undef, Str(<<"a">>)>>)),
    Attrs("number", TRUE, NoDefault, NoValidate,
          EnumArray(<<Str(<<"2">>), Num(2)>>)) }

LoadRaws == {Str(<<"2">>), Str(<<"1">>), Str(<<"a">>)}

\* The schemas of n keys, the keys named in order
SchemasOf(n, entries) ==
  {[k \in 1..n |-> Entry(KeyNames[k], f[k])] : f \in [1..n -> entries]}

KeysOf(sch) == {sch[k].key : k \in 1..Len(sch)}

\* A key that no schema declares, present in the raw values
Undeclared == [k \in {"X"} |-> Str(<<"x">>)]

Init ==
  /\ schema \in UNION {SchemasOf(n, LoadEntries) : n \in 0..MaxKeys}
  /\ envObject \in {Assign(m, Undeclared) : m \in Maps(KeysOf(schema), LoadRaws)}
  /\ fromEnvFile = "false"
  /\ fromProcessEnv = FALSE
  /\ fs = EmptyMap
  /\ processEnv = EmptyMap
  /\ BeforeLoad
  /\ earlier = NoView

Next == MergeSources \/ ParseKey \/ RunValidation \/ ReturnProxy

Spec == Init /\ [][Next]_vars

\* The schemas whose views are read and written
ViewSchemas ==
  { <<Entry("A", Short("string"))>>,
    <<Entry("A", Short("string")),
      Entry("B", Attrs("number", FALSE, NoDefault, ValidateFn("true"),
                       EnumArray(<<Num(2), Num(4), Num(6)>>)))>>,
    <<Entry("A", Attrs("boolean", FALSE, Literal(Bool(TRUE)), NoValidate, NoEnum)),
      Entry("B", Short("array"))>> }

ViewRaws ==
  { Undeclared,
    Assign([k \in {"A", "B"} |-> IF k = "A" THEN Str(<<"a">>) ELSE Str(<<"2">>)],
           Undeclared),
    Assign([k \in {"B"} |-> Str(<<"2">>)], Undeclared) }

InitView ==
  /\ schema \in ViewSchemas
  /\ envObject \in ViewRaws
  /\ fromEnvFile = "false"
  /\ fromProcessEnv = FALSE
  /\ fs = EmptyMap
  /\ processEnv = EmptyMap
  /\ BeforeLoad
  /\ earlier = NoView

NextView ==
  \/ MergeSources
  \/ ParseKey
  \/ RunValidation
  \/ ReturnProxy
  \/ \E prop \in Props : Get(prop)
  \/ \E prop \in Props, value \in WriteValues, strict \in BOOLEAN :
       Set(prop, value, strict)

SpecView == InitView /\ [][NextView]_vars

\* The raw layers of the merge: strings, the empty string among them
MergeEntries ==
  { Short("string"),
    Attrs("string", TRUE, NoDefault, NoValidate, NoEnum),
    Attrs("string", FALSE, Literal(Str(<<"d">>)), NoValidate, NoEnum) }

EnvPaths == {DefaultEnvPath, "/etc/app.env"}

InitMerge ==
  /\ schema \in {<<Entry("A", e)>> : e \in MergeEntries}
  /\ envObject \in Maps({"A"}, {Str(<<"e">>), Str(<<>>), Num(5)})
  /\ fromEnvFile \in {"false", "true", "/etc/app.env", "/missing.env"}
  /\ fromProcessEnv \in BOOLEAN
  /\ fs \in UNION {[d -> Maps({"A"}, {Str(<<"f">>), Str(<<>>)})] :
                     d \in SUBSET EnvPaths}
  /\ processEnv \in Maps({"A"}, {Str(<<"p">>), Str(<<>>)})
  /\ BeforeLoad
  /\ earlier = NoView

NextMerge == MergeSources \/ ParseKey \/ ReturnProxy

SpecMerge == InitMerge /\ [][NextMerge]_vars

\* The schemas and raw values of two load calls, the same or different
TwoSchemas ==
  { <<Entry("A", Short("string"))>>,
    <<Entry("A", Short("string")),
      Entry("B", Attrs("number", FALSE, NoDefault, ValidateFn("true"), NoEnum))>> }

TwoRaws ==
  { [k \in {"A"} |-> Str(<<"a">>)],
    [k \in {"A", "B"} |-> Str(<<"2">>)] }

\* What the two views are written with, and where
TwoValues == {Str(<<"w">>), Undef}

TwoProps == {"A", "B"}

InitTwo ==
  /\ schema \in TwoSchemas
  /\ envObject \in TwoRaws
  /\ fromEnvFile = "false"
  /\ fromProcessEnv = FALSE
  /\ fs = EmptyMap
  /\ processEnv = EmptyMap
  /\ BeforeLoad
  /\ earlier = NoView

NextTwo ==
  \/ MergeSources
  \/ ParseKey
  \/ RunValidation
  \/ ReturnProxy
  \/ \E schema2 \in TwoSchemas, envObject2 \in TwoRaws :
       LoadAgain(schema2, envObject2)
  \/ \E prop \in TwoProps : Get(prop)
  \/ \E prop \in TwoProps, value \in TwoValues, strict \in BOOLEAN :
       Set(prop, value, strict)
  \/ \E prop \in TwoProps : GetEarlier(prop)
  \/ \E prop \in TwoProps, value \in TwoValues, strict \in BOOLEAN :
       SetEarlier(prop, value, strict)

SpecTwo == InitTwo /\ [][NextTwo]_vars

\* The values of a validate or enum attribute that are neither a function,
\* a regular expression nor an array
Malformed ==
  {Num(5), Str(<<"x">>), Bool(TRUE), Null, Num(0), Str(<<>>), Bool(FALSE)}

\* Entries whose validate or whose enum is malformed, of the types that
\* take every raw string
SchemaEntries ==
  {Attrs(t, FALSE, NoDefault, ValidateOther(v), NoEnum) :
     t \in {"string", "array"}, v \in Malformed} \cup
  {Attrs(t, FALSE, NoDefault, NoValidate, EnumOther(v)) :
     t \in {"string", "array"}, v \in Malformed}

InitSchema ==
  /\ schema \in {<<Entry("A", e)>> : e \in SchemaEntries}
  /\ envObject \in Maps({"A"}, LoadRaws)
  /\ fromEnvFile = "false"
  /\ fromProcessEnv = FALSE
  /\ fs = EmptyMap
  /\ processEnv = EmptyMap
  /\ BeforeLoad
  /\ earlier = NoView

NextSchema == MergeSources \/ ParseKey \/ RunValidation \/ ReturnProxy

SpecSchema == InitSchema /\ [][NextSchema]_vars

(***************************************************************************)
(* What the claims speak of                                                *)
(***************************************************************************)
KeyAt(k) == schema[k].key

EntryAt(k) == Normalize(schema[k].attrs)

\* The merged raw value of the k-th key
RawAt(k) == Lookup(given, KeyAt(k))

\* The k-th entry went through the schema loop and was stored
Stored(k) == pc # "start" /\ i > k

\* The schema loop threw at the k-th entry
ThrownAt(k) == pc = "thrown" /\ i = k

Handled(k) == k \in 1..Len(schema) /\ (Stored(k) \/ ThrownAt(k))

\* The integer a string matching ^-?(0|[1-9][0-9]*)$ denotes
IntegerOf(str) ==
  IF Head(str) = "-" THEN 0 - DigitsVal(Tail(str)) ELSE DigitsVal(str)

DefaultCalls(key) ==
  {c \in 1..Len(calls) : calls[c].fn = "default" /\ calls[c].key = key}

\* C1: a non-required number key with a non-empty raw string is accepted,
\* as the integer the string denotes, exactly when the raw string itself
\* matches ^-?(0|[1-9][0-9]*)$, and fails with InvalidValue otherwise.
C1_NumberMatchesOriginal ==
  \A k \in 1..Len(schema) :
    (/\ Handled(k)
     /\ EntryAt(k).type = "number"
     /\ ~EntryAt(k).required
     /\ IsString(RawAt(k))
     /\ RawAt(k).s # <<>>)
    => IF isNumberMatch(RawAt(k).s)
       THEN Stored(k) /\ config[KeyAt(k)] = Num(IntegerOf(RawAt(k).s))
       ELSE ThrownAt(k) /\ error = "InvalidValue"

\* C2: a required key fails with InvalidValue, its default never consulted,
\* when the raw value is absent, empty or not a string; otherwise the raw
\* string itself is the parsed value, whatever the declared type.
C2_RequiredPassThrough ==
  \A k \in 1..Len(schema) :
    (Handled(k) /\ EntryAt(k).required)
    => IF ~IsString(RawAt(k)) \/ RawAt(k).s = <<>>
       THEN /\ ThrownAt(k)
            /\ error = "InvalidValue"
            /\ DefaultCalls(KeyAt(k)) = {}
       ELSE /\ Stored(k)
            /\ config[KeyAt(k)] = RawAt(k)
            /\ DefaultCalls(KeyAt(k)) = {}

\* A required number key given "00" is stored as the string "00"
C2_Witness ==
  /\ pc = "returned"
  /\ EntryAt(1).required
  /\ EntryAt(1).type = "number"
  /\ EntryAt(1).default.fn
  /\ config["A"] = Str(<<"0", "0">>)

\* C3: a non-required key whose raw value is absent or empty resolves to
\* the result of its default function, else to its literal default, else
\* to undefined (the empty sequence for type array).
C3_DefaultResolution ==
  \A k \in 1..Len(schema) :
    (/\ Handled(k)
     /\ ~EntryAt(k).required
     /\ EntryAt(k).type \in {"string", "number", "boolean", "json", "array"}
     /\ (RawAt(k) = Undef \/ RawAt(k) = Str(<<>>)))
    => /\ Stored(k)
       /\ IF EntryAt(k).default.fn
          THEN /\ config[KeyAt(k)] = EntryAt(k).default.v
               /\ Cardinality(DefaultCalls(KeyAt(k))) = 1
          ELSE IF EntryAt(k).default.v # Undef
          THEN config[KeyAt(k)] = EntryAt(k).default.v
          ELSE IF EntryAt(k).type = "array"
          THEN config[KeyAt(k)].t = "array" /\ config[KeyAt(k)].a = <<>>
          ELSE config[KeyAt(k)] = Undef

Declared == KeysOf(schema)

NumberEnum ==
  Attrs("number", FALSE, NoDefault, NoValidate, EnumArray(<<Num(2), Num(4), Num(6)>>))

\* What parse made of the k-th key (it reads only the inputs and given)
ParsedAt(k) == parse(KeyAt(k), RawAt(k), EntryAt(k))

\* C4: every stored key with an enum sequence holds a member of it; a
\* resolved value that is not a member fails the load with EnumViolation;
\* {type: 'number', enum: [2, 4, 6]} takes "2" as 2 and rejects "1".
C4_EnumMembership ==
  \A k \in 1..Len(schema) :
    /\ (Stored(k) /\ EntryAt(k).enum.kind = "array")
       => \E m \in 1..Len(EntryAt(k).enum.a) :
            /\ EntryAt(k).enum.a[m] = config[KeyAt(k)]
            /\ config[KeyAt(k)].t # "array"
    /\ (/\ Handled(k)
        /\ EntryAt(k).enum.kind = "array"
        /\ ParsedAt(k).ok
        /\ \A m \in 1..Len(EntryAt(k).enum.a) :
             EntryAt(k).enum.a[m] # ParsedAt(k).val)
       => ThrownAt(k) /\ error = "EnumViolation" /\ pc # "returned"
    /\ (Handled(k) /\ schema[k].attrs = NumberEnum /\ RawAt(k) = Str(<<"2">>))
       => Stored(k) /\ config[KeyAt(k)] = Num(2)
    /\ (Handled(k) /\ schema[k].attrs = NumberEnum /\ RawAt(k) = Str(<<"1">>))
       => ThrownAt(k) /\ error = "EnumViolation"

\* A view is returned whose number key, given "2", holds 2 of [2, 4, 6],
\* next to a key left undefined that its enum lists
C4_Witness ==
  /\ pc = "returned"
  /\ Len(schema) = 2
  /\ schema[1].attrs = NumberEnum
  /\ config["A"] = Num(2)
  /\ EntryAt(2).enum.kind = "array"
  /\ config["B"] = Undef

\* The validators executed so far, in the order of their execution
ValidatorCalls == SelectSeq(calls, LAMBDA c : c.fn \in {"validate", "test"})

IsValidator(e) == HasValidate(e) /\ e.validate.kind \in {"function", "regex"}

RECURSIVE ValidatorKeys(_)
\* The keys of the first n entries that carry a validator, in schema order
ValidatorKeys(n) ==
  IF n = 0 THEN <<>>
  ELSE IF IsValidator(EntryAt(n))
  THEN Append(ValidatorKeys(n - 1), KeyAt(n))
  ELSE ValidatorKeys(n - 1)

\* The validator of the call c accepts what it was passed
Accepts(c) ==
  LET e == CHOOSE e \in {EntryAt(k) : k \in {k \in 1..Len(schema) : KeyAt(k) = c.key}} : TRUE
  IN  IF e.validate.kind = "function"
      THEN CASE e.validate.id = "true" -> TRUE
             [] e.validate.id = "false" -> FALSE
             [] OTHER -> \A k \in Declared \ {c.key} : c.cfg[k] # Undef
      ELSE \E k \in 1..Len(StringOf(c.val)) : IsLower(StringOf(c.val)[k])

\* C5: validators run only once every key is parsed, enum-checked and
\* stored, in schema order, each passed (resolved value, key, the fully
\* populated config); the first falsy result fails the load with
\* ValidationFailed and no later validator runs.
C5_DeferredValidators ==
  LET vc == ValidatorCalls
      vk == ValidatorKeys(Len(schema))
  IN  /\ Len(vc) <= Len(vk)
      /\ \A n \in 1..Len(vc) :
           /\ vc[n].key = vk[n]
           /\ DOMAIN vc[n].cfg = Declared
           /\ vc[n].cfg = config
           /\ vc[n].val = config[vc[n].key]
           /\ i > Len(schema)
           /\ n < Len(vc) => Accepts(vc[n])
      /\ (vc # <<>> /\ ~Accepts(vc[Len(vc)]))
         => pc = "thrown" /\ error = "ValidationFailed"
      /\ (pc = "thrown" /\ error = "ValidationFailed")
         => vc # <<>> /\ ~Accepts(vc[Len(vc)])
      /\ pc = "returned" => Len(vc) = Len(vk)

\* The validator of A has read B, declared after it, and passed; the
\* validator of B then failed the load
C5_Witness ==
  /\ pc = "thrown"
  /\ error = "ValidationFailed"
  /\ Len(ValidatorCalls) = 2
  /\ ValidatorCalls[1].key = "A"
  /\ EntryAt(1).validate.id = "peer"
  /\ ValidatorCalls[1].cfg["B"] # Undef

\* The step that has just been taken read or wrote the view
ViewStep == pc = "returned" /\ result'.op # "none"

\* C6: on a view, reading an undeclared key fails with UnknownKey unless
\* the key is a reserved introspection name; writing an undeclared key
\* always fails with UnknownKey; neither changes the config.
C6_UndeclaredKeys ==
  [][(ViewStep /\ result'.prop \notin Declared)
     => /\ result'.op = "get"
           => IF IsReserved(result'.prop)
              THEN result'.err = "none"
              ELSE result'.err = "UnknownKey"
        /\ result'.op = "set" => result'.err = "UnknownKey"
        /\ config' = config]_vars

\* C7: writing any value to a declared key raises no error, the key then
\* holds the value and every other key keeps its own.
C7_WriteDeclaredKey ==
  [][(ViewStep /\ result'.op = "set" /\ result'.prop \in Declared)
     => /\ result'.err = "none"
        /\ config' = [config EXCEPT ![result'.prop] = result'.val]
        /\ getTrap(config', result'.prop).val = result'.val]_vars

\* C8: once a view is returned the keys of the config are exactly the keys
\* of the schema, whatever is read or written.
C8_KeysAreSchemaKeys ==
  pc = "returned" => DOMAIN config = Declared

\* After a refused write, A is present and undefined, and X, which only
\* the raw values hold, is not a key
C8_Witness ==
  /\ pc = "returned"
  /\ result.op = "set"
  /\ result.prop = "X"
  /\ result.err = "UnknownKey"
  /\ "X" \in DOMAIN given
  /\ "A" \in DOMAIN config
  /\ config["A"] = Undef

\* The three raw layers as the options enable them, lowest precedence first
EnabledLayer(l) ==
  CASE l = 1 -> envObject
    [] l = 2 ->
         LET path == IF fromEnvFile = "true" THEN DefaultEnvPath ELSE fromEnvFile
         IN  IF fromEnvFile # "false" /\ path \in DOMAIN fs
             THEN fs[path]
             ELSE EmptyMap
    [] OTHER -> IF fromProcessEnv THEN processEnv ELSE EmptyMap

LayersWith(key) == {l \in 1..3 : key \in DOMAIN EnabledLayer(l)}

Highest(ls) == CHOOSE l \in ls : \A m \in ls : m <= l

\* C9: the raw value of a key is that of the highest enabled layer holding
\* it (envObject < file < process environment); a missing file is no
\* error; with both layers disabled the raw values are those of envObject.
C9_LayerPrecedence ==
  pc # "start" =>
    /\ \A key \in {"A", "X"} :
         IF LayersWith(key) = {}
         THEN key \notin DOMAIN given
         ELSE /\ key \in DOMAIN given
              /\ given[key] = EnabledLayer(Highest(LayersWith(key)))[key]
    /\ (fromEnvFile = "false" /\ ~fromProcessEnv) => given = envObject
    /\ error \in {"none", "InvalidValue"}
    /\ (/\ Stored(1)
        /\ LayersWith("A") # {}
        /\ IsString(given["A"])
        /\ given["A"].s # <<>>)
       => config["A"] = EnabledLayer(Highest(LayersWith("A")))["A"]

\* The three layers hold A; the value of the process environment is used
C9_Witness ==
  /\ pc = "returned"
  /\ fromEnvFile = "/etc/app.env"
  /\ LayersWith("A") = {1, 2, 3}
  /\ envObject["A"] = Str(<<"e">>)
  /\ fs["/etc/app.env"]["A"] = Str(<<"f">>)
  /\ config["A"] = Str(<<"p">>)

\* C10: a load ends with a view over a config whose every key passed
\* parsing, enum check and validator, or with one error and no view; a
\* failure in the schema loop stops at that key: no later key is parsed,
\* no later default function is invoked and no validator is executed.
C10_AllOrNothing ==
  /\ pc # "thrown" => error = "none"
  /\ pc = "thrown" => error # "none" /\ result = NoResult
  /\ pc = "returned"
     => /\ DOMAIN config = Declared
        /\ Len(ValidatorCalls) = Len(ValidatorKeys(Len(schema)))
        /\ \A n \in 1..Len(ValidatorCalls) : Accepts(ValidatorCalls[n])
        /\ \A k \in 1..Len(schema) :
             /\ ParsedAt(k).ok
             /\ config[KeyAt(k)] = ParsedAt(k).val
             /\ HasValidate(EntryAt(k)) => IsValidator(EntryAt(k))
             /\ HasEnum(EntryAt(k))
                => /\ EntryAt(k).enum.kind = "array"
                   /\ \E m \in 1..Len(EntryAt(k).enum.a) :
                        EntryAt(k).enum.a[m] = config[KeyAt(k)]
  /\ \A k \in 1..Len(schema) :
       ThrownAt(k)
       => /\ error \in {"InvalidValue", "InvalidType", "SyntaxError",
                        "InvalidSchema", "EnumViolation"}
          /\ DOMAIN config = {KeyAt(m) : m \in 1..(k - 1)}
          /\ ValidatorCalls = <<>>
          /\ \A c \in 1..Len(calls) :
               /\ calls[c].fn = "default"
               /\ \E m \in 1..k : KeyAt(m) = calls[c].key

\* The enum check of A failed after its validator was queued: the validator
\* never ran, and B, whose default function was due, was never parsed
C10_Witness ==
  /\ ThrownAt(1)
  /\ error = "EnumViolation"
  /\ Len(schema) = 2
  /\ validationsToRun # <<>>
  /\ EntryAt(2).default.fn
  /\ RawAt(2) = Undef
  /\ calls = <<>>
  /\ config = EmptyMap

\* The load is over: a view was returned or an error thrown
Ended == pc \in {"returned", "thrown"}

\* C11: an entry whose validate is neither a function nor a regular
\* expression, or whose enum is not a sequence, fails the load with
\* InvalidSchema, whatever the attribute value (falsy ones included) and
\* whatever the raw value of the key.
C11_MalformedSchema ==
  (Ended /\ \E k \in 1..Len(schema) :
              \/ schema[k].attrs.validate.kind = "other"
              \/ schema[k].attrs.enum.kind = "other")
  => pc = "thrown" /\ error = "InvalidSchema"


\* The type names parse knows
Recognized == {"string", "array", "number", "boolean", "json"}

TopIsEmpty(key) ==
  /\ LayersWith(key) # {}
  /\ EnabledLayer(Highest(LayersWith(key)))[key] = Str(<<>>)

\* A lower enabled layer holds a non-empty string for the key
LowerNonEmpty(key) ==
  \E l \in LayersWith(key) :
    /\ l < Highest(LayersWith(key))
    /\ IsString(EnabledLayer(l)[key])
    /\ EnabledLayer(l)[key] # Str(<<>>)

\* C14: when the highest enabled layer holding a key holds the empty string,
\* the key is handled as absent, whatever the lower layers hold: a required
\* key fails the load with InvalidValue, any other key is stored as its
\* default (undefined without one), never as a lower layer's value.
C14_EmptyAfterMerge ==
  \A k \in 1..Len(schema) :
    (Handled(k) /\ TopIsEmpty(KeyAt(k))) =>
      /\ RawAt(k) = Str(<<>>)
      /\ IF EntryAt(k).required
         THEN ThrownAt(k) /\ error = "InvalidValue"
         ELSE /\ Stored(k)
              /\ config[KeyAt(k)] = EntryAt(k).default.v
              /\ \A l \in LayersWith(KeyAt(k)) :
                   EnabledLayer(l)[KeyAt(k)] # Str(<<>>)
                   => config[KeyAt(k)] # EnabledLayer(l)[KeyAt(k)]

\* envObject holds "e", the process environment the empty string: the view
\* holds the default "d"
C14_Witness ==
  /\ pc = "returned"
  /\ TopIsEmpty("A")
  /\ LayersWith("A") = {1, 3}
  /\ LowerNonEmpty("A")
  /\ envObject["A"] = Str(<<"e">>)
  /\ config["A"] = Str(<<"d">>)


\* Two views exist, or one exists and a later load is under way
TwoLoads == earlier.live /\ earlier'.live

\* The state of the later load and of the view it returns
later ==
  <<inputs, given, config, validationsToRun, pc, i, j, error, calls, result>>

\* C12: two load calls share no mutable state.  A step of the later load, or
\* a read or write through its view, leaves the target of the earlier view
\* as it was; a read or write through the earlier view leaves the later load
\* and its view as they were; a read of a declared key through either view
\* returns what that view's own target holds; and the later load stores, for
\* each key, what parse makes of its own merged raw values, and returns its
\* view over exactly these, whatever was written to the earlier view.
C12_IndependentViews ==
  [][TwoLoads =>
       /\ later' # later => earlier' = earlier
       /\ earlier' # earlier => later' = later
       /\ (earlier'.result # earlier.result /\ earlier'.result.op = "get"
           /\ earlier'.result.prop \in DOMAIN earlier.target)
          => /\ earlier'.result.err = "none"
             /\ earlier'.result.val = earlier.target[earlier'.result.prop]
       /\ (result' # result /\ result'.op = "get"
           /\ result'.prop \in DOMAIN config)
          => /\ result'.err = "none"
             /\ result'.val = config[result'.prop]
       /\ pc = "running" => given = mergeSources
       /\ (pc = "running" /\ pc' = "returned")
          => /\ config' = config
             /\ DOMAIN config = Declared
             /\ \A k \in 1..Len(schema) : config[KeyAt(k)] = ParsedAt(k).val
     ]_vars

\* Both views are live; A was written with "w" through the later view, and
\* the read of A through the earlier view returned what the earlier load
\* had stored, the raw string
C12_Witness ==
  /\ pc = "returned"
  /\ earlier.live
  /\ result.op = "set" /\ result.prop = "A" /\ result.err = "none"
  /\ config["A"] = Str(<<"w">>)
  /\ earlier.result.op = "get" /\ earlier.result.prop = "A"
  /\ earlier.result.val \in {Str(<<"a">>), Str(<<"2">>)}
  /\ earlier.target["A"] = earlier.result.val

============================================================================
